---- MODULE Spec2Model ----
(***************************************************************************)
(* Model of terraform_variable_drift/__main__.py: one run of main() over a *)
(* file tree.  Paths, file texts and variable names are strings, and the   *)
(* string operations of the source (endswith, "in", replace, strip, the    *)
(* two regular expressions, sorted) are computed character by character.   *)
(* hcl2.load and json.load are library calls: every file of the tree       *)
(* carries the value the library returns for it (or the fact it raises).   *)
(***************************************************************************)
EXTENDS Integers, Sequences, FiniteSets, TLC

VARIABLES hcl2_available, tree, ignorefile, pc, todo,
          declared, used, tfvars_keys, ignore,
          unused, missing, tfvars_extra, exit_code,
          tf_parsed, tfvars_parsed

vars == <<hcl2_available, tree, ignorefile, pc, todo,
          declared, used, tfvars_keys, ignore,
          unused, missing, tfvars_extra, exit_code,
          tf_parsed, tfvars_parsed>>

\* Largest number of files in the tree of one run.
MaxFiles == 2

-----------------------------------------------------------------------------
(* Strings *)

\* s[i-1:i] and s[i-1:j] of Python: empty outside the string.
Char(s, i) == IF i \in 1..Len(s) THEN SubSeq(s, i, i) ELSE ""

Sub(s, i, j) == IF i >= 1 /\ j <= Len(s) THEN SubSeq(s, i, j) ELSE ""

EndsWith(s, suf) ==
    /\ Len(s) >= Len(suf)
    /\ SubSeq(s, Len(s) - Len(suf) + 1, Len(s)) = suf

StartsWith(s, pre) ==
    /\ Len(s) >= Len(pre)
    /\ SubSeq(s, 1, Len(pre)) = pre

\* Python's "sub in s"
Contains(s, sub) ==
    \E i \in 1..(Len(s) - Len(sub) + 1) : SubSeq(s, i, i + Len(sub) - 1) = sub

RECURSIVE ReplaceBackslash(_)
\* path.replace("\\", "/")
ReplaceBackslash(s) ==
    IF s = "" THEN ""
    ELSE (IF Head(s) = "\\" THEN "/" ELSE Head(s)) \o ReplaceBackslash(Tail(s))

\* The characters after the last "/" of a path (os.path.basename).
Basename(p) ==
    LET slashes == {i \in 1..Len(p) : Char(p, i) = "/"}
    IN  IF slashes = {} THEN p
        ELSE SubSeq(p, (CHOOSE i \in slashes : \A j \in slashes : j <= i) + 1, Len(p))

\* [A-Za-z0-9_]
IdentChars == "0123456789ABCDEFGHIJKLMNOPQRSTUVWXYZ_abcdefghijklmnopqrstuvwxyz"

IdentSet == {SubSeq(IdentChars, i, i) : i \in 1..Len(IdentChars)}

IsIdent(c) == c \in IdentSet

\* \s of the re module and the characters str.strip() removes
\* (the vertical tab has no TLA+ escape and occurs in no modelled text).
IsSpace(c) == c \in {" ", "\t", "\n", "\r", "\f"}

\* Code-point order of the characters names are made of.
OrdChars == " #-.0123456789ABCDEFGHIJKLMNOPQRSTUVWXYZ_abcdefghijklmnopqrstuvwxyz"

OrdOf == [c \in {SubSeq(OrdChars, i, i) : i \in 1..Len(OrdChars)} |->
             CHOOSE i \in 1..Len(OrdChars) : SubSeq(OrdChars, i, i) = c]

Ord(c) == IF c \in DOMAIN OrdOf THEN OrdOf[c] ELSE 0

RECURSIVE StrLess(_, _)
\* Python's a < b on str: lexicographic by code point.
StrLess(a, b) ==
    IF b = "" THEN FALSE
    ELSE IF a = "" THEN TRUE
    ELSE IF Head(a) = Head(b) THEN StrLess(Tail(a), Tail(b))
    ELSE Ord(Head(a)) < Ord(Head(b))

RECURSIVE sorted_descending(_)
sorted_descending(S) ==
    IF S = {} THEN <<>>
    ELSE LET m == CHOOSE x \in S : \A y \in S \ {x} : StrLess(y, x)
         IN  <<m>> \o sorted_descending(S \ {m})

RECURSIVE sorted(_)
\* sorted(S) of a set of str
sorted(S) ==
    IF S = {} THEN <<>>
    ELSE LET m == CHOOSE x \in S : \A y \in S \ {x} : StrLess(x, y)
         IN  <<m>> \o sorted(S \ {m})

Range(q) == {q[i] : i \in 1..Len(q)}

-----------------------------------------------------------------------------
(* Config *)

IGNORE_DIR_PATTERNS == {"/.terraform/", "/.git/", "/vendor/", "/third_party/"}
IGNORE_FILE_EXTS == {".tf", ".tfvars", ".json"}

should_skip_no_ext(path) ==
    LET p == ReplaceBackslash(path)
    IN  \E s \in IGNORE_DIR_PATTERNS : Contains(p, s)

should_skip(path) ==
    LET p == ReplaceBackslash(path)
    IN  IF ~(\E e \in IGNORE_FILE_EXTS : EndsWith(p, e)) THEN TRUE
        ELSE IF \E s \in IGNORE_DIR_PATTERNS : Contains(p, s) THEN TRUE
        ELSE FALSE

\* str.strip()
strip(s) ==
    LET ns == {i \in 1..Len(s) : ~IsSpace(Char(s, i))}
    IN  IF ns = {} THEN ""
        ELSE SubSeq(s, CHOOSE i \in ns : \A j \in ns : i <= j,
                       CHOOSE i \in ns : \A j \in ns : j <= i)

-----------------------------------------------------------------------------
(* glob.glob(pattern, recursive=True): "**" descends into every directory  *)
(* whose name does not start with ".", and "*" matches no leading ".".     *)

IsHidden(p) == StartsWith(p, ".") \/ Contains(p, "/.")

\* "**/*.tf"
GlobTf(p) == ~IsHidden(p) /\ EndsWith(Basename(p), ".tf")

\* "**/*.tfvars*"
GlobTfvars(p) == ~IsHidden(p) /\ Contains(Basename(p), ".tfvars")

GlobAnyJson(p) == ~IsHidden(p) /\ EndsWith(Basename(p), ".json")

\* "**/*.tfvars.json"
GlobTfvarsJson(p) == ~IsHidden(p) /\ EndsWith(Basename(p), ".tfvars.json")

-----------------------------------------------------------------------------
(* The two regular expressions.  Every repetition is followed by a         *)
(* character outside its class, so the greedy match is the only match.     *)

\* First index >= i of txt that is not whitespace (Len(txt)+1 if none).
SpaceEnd(txt, i) ==
    CHOOSE j \in i..(Len(txt) + 1) :
        /\ \A k \in i..(j - 1) : IsSpace(Char(txt, k))
        /\ ~IsSpace(Char(txt, j))

\* First index >= i of txt that is not in [A-Za-z0-9_].
IdentEnd(txt, i) ==
    CHOOSE j \in i..(Len(txt) + 1) :
        /\ \A k \in i..(j - 1) : IsIdent(Char(txt, k))
        /\ ~IsIdent(Char(txt, j))

\* variable\s+"([A-Za-z0-9_]+)"\s*{ matched at index i:
\* [ok, name (the group), next (the index after the match)].
DeclMatch(txt, i) ==
    LET a == i + 8
        b == SpaceEnd(txt, a)
        c == b + 1
        d == IdentEnd(txt, c)
        e == SpaceEnd(txt, d + 1)
    IN  IF /\ Sub(txt, i, i + 7) = "variable"
           /\ b > a
           /\ Char(txt, b) = "\""
           /\ d > c
           /\ Char(txt, d) = "\""
           /\ Char(txt, e) = "{"
        THEN [ok |-> TRUE, name |-> SubSeq(txt, c, d - 1), next |-> e + 1]
        ELSE [ok |-> FALSE, name |-> "", next |-> i + 1]

RECURSIVE DeclFindall(_, _)
\* re.findall(r'variable\s+"([A-Za-z0-9_]+)"\s*{', txt), as a set, from index i
DeclFindall(txt, i) ==
    IF i > Len(txt) THEN {}
    ELSE LET m == DeclMatch(txt, i)
         IN  (IF m.ok THEN {m.name} ELSE {}) \cup DeclFindall(txt, m.next)

\* (?<![A-Za-z0-9_])var\.([A-Za-z0-9_]+) matched at index i
VarRefMatch(txt, i) ==
    LET c == i + 4
        d == IdentEnd(txt, c)
    IN  IF /\ ~IsIdent(Char(txt, i - 1))
           /\ Sub(txt, i, i + 3) = "var."
           /\ d > c
        THEN [ok |-> TRUE, name |-> SubSeq(txt, c, d - 1), next |-> d]
        ELSE [ok |-> FALSE, name |-> "", next |-> i + 1]

RECURSIVE VarRefFindall(_, _)
\* VAR_REF_RE.findall(txt), as a set, from index i
VarRefFindall(txt, i) ==
    IF i > Len(txt) THEN {}
    ELSE LET m == VarRefMatch(txt, i)
         IN  (IF m.ok THEN {m.name} ELSE {}) \cup VarRefFindall(txt, m.next)

-----------------------------------------------------------------------------
(* Values the library parsers return: a Python dict (its keys are the      *)
(* DOMAIN of d), a list, or the call raising.                              *)

Dict(f) == [tag |-> "dict", d |-> f]
List(q) == [tag |-> "list", l |-> q]
Raises  == [tag |-> "error"]

\* A file of the tree: its path as glob yields it, what open()/read() do
\* with it ("text": readable UTF-8; "undecodable": read raises
\* UnicodeDecodeError; "unopenable": open raises OSError, e.g. a directory
\* named like a file), its text, and what hcl2.load and json.load return.
File(path, kind, text, hcl, json) ==
    [path |-> path, kind |-> kind, text |-> text, hcl |-> hcl, json |-> json]

VarBlock(names) == List([i \in 1..Len(names) |-> Dict((names[i] :> "{}"))])

Catalogue == {
    File("main.tf", "text", "r = var.region",
         Dict(("r" :> "s")), Raises),
    File("main.tf", "text", "variable \"env\" {\n x = avar.b + var.env",
         Raises, Raises),
    File("vars.tf", "text", "variable \"region\" {}\nvariable   \"env\"{}",
         Dict(("variable" :> VarBlock(<<"region", "env">>))), Raises),
    File("vars.tf", "text", "variable \"project_id\" {}\np = var.project_id",
         List(<<Dict(("variable" :> VarBlock(<<"project_id">>) @@ "p" :> "s"))>>), Raises),
    File("bad.tf", "undecodable", "", Raises, Raises),
    File("dir.tf", "unopenable", "", Raises, Raises),
    File("vendor/main.tf", "text", "variable \"vendored\" {}",
         Dict(("variable" :> VarBlock(<<"vendored">>))), Raises),
    File("mod/vendor/main.tf", "text", "variable \"vendored\" {}",
         Dict(("variable" :> VarBlock(<<"vendored">>))), Raises),
    File(".terraform/m.tf", "text", "variable \"cached\" {}",
         Dict(("variable" :> VarBlock(<<"cached">>))), Raises),
    File("a.tfvars.tf", "text", "variable \"a\" {}\nb = var.a",
         Dict(("variable" :> VarBlock(<<"a">>) @@ "b" :> "s")), Raises),
    File("terraform.tfvars", "text", "region = \"eu\"\nextra_flag = true",
         Dict(("region" :> "s" @@ "extra_flag" :> "s")), Raises),
    File("terraform.tfvars", "text", "region = = ", Raises, Raises),
    File("mod\\vendor\\w.tfvars", "text", "w = 1", Dict(("w" :> "s")), Raises),
    File("x.tfvars.json", "text", "{\"extra_flag\": 1, \"env\": 2}",
         Raises, Dict(("extra_flag" :> "s" @@ "env" :> "s"))),
    File("x.tfvars.json", "text", "[\"extra_flag\"]",
         Raises, List(<<"extra_flag">>)),
    File("bin.tfvars.json", "undecodable", "", Raises, Raises),
    File("x.tfvars.bak", "text", "bak_key = 1", Dict(("bak_key" :> "s")), Raises),
    File("x.json", "text", "{\"json_only\": 1}", Raises, Dict(("json_only" :> "s")))
}

\* .tfdriftignore: absent, unreadable, or its lines (str.splitlines()).
IgnoreFiles == {
    [kind |-> "absent", lines |-> <<>>],
    [kind |-> "undecodable", lines |-> <<>>],
    [kind |-> "text", lines |-> <<"# cross-module", "", "  extra_flag\t", "env", "env">>],
    [kind |-> "text", lines |-> <<"project_id", " #x", "vendored", "variable">>]
}

-----------------------------------------------------------------------------
(* The extractors.  A call returns [raised, val]: val is the set returned, *)
(* raised says that an exception left the function instead.                *)

Return(S) == [raised |-> FALSE, val |-> S]
Raise     == [raised |-> TRUE, val |-> {}]

\* hcl_load(path): open, then hcl2.load(f)
hcl_load(f) == IF f.kind # "text" THEN Raises ELSE f.hcl

\* open + json.load(f)
json_load(f) == IF f.kind # "text" THEN Raises ELSE f.json

\* open + f.read()
read_text(f) == IF f.kind # "text" THEN Raises ELSE [tag |-> "str", txt |-> f.text]

parse_declared_vars_from_tf(f) ==
    LET data == hcl_load(f)
        blocks == IF data.tag = "dict" THEN <<data>>
                  ELSE IF data.tag = "list" THEN data.l
                  ELSE <<>>
        entries(blk) == IF "variable" \in DOMAIN blk.d
                        THEN Range(blk.d["variable"].l) ELSE {}
    IN  IF data.tag = "error"
        THEN LET r == read_text(f)
             IN  IF r.tag = "error" THEN Raise
                 ELSE Return(DeclFindall(r.txt, 1))
        ELSE Return(UNION {UNION {DOMAIN entry.d :
                                    entry \in {e \in entries(blk) : e.tag = "dict"}} :
                           blk \in Range(blocks)})

parse_used_vars_from_tf(f) ==
    LET r == read_text(f)
    IN  IF r.tag = "error" THEN Raise ELSE Return(VarRefFindall(r.txt, 1))

parse_tfvars(f) ==
    IF EndsWith(f.path, ".json")
    THEN LET obj == json_load(f)
         IN  IF obj.tag = "dict" THEN Return(DOMAIN obj.d) ELSE Return({})
    ELSE LET data == hcl_load(f)
         IN  IF data.tag = "dict" THEN Return(DOMAIN data.d) ELSE Return({})

load_ignorelist(ig) ==
    IF ig.kind = "absent" THEN Return({})
    ELSE IF ig.kind # "text" THEN Raise
    ELSE Return({strip(ig.lines[i]) : i \in
                   {j \in 1..Len(ig.lines) :
                      /\ strip(ig.lines[j]) # ""
                      /\ ~StartsWith(strip(ig.lines[j]), "#")}})

-----------------------------------------------------------------------------
(* main() *)

Paths == {f.path : f \in tree}

FileAt(p) == CHOOSE f \in tree : f.path = p

\* The file trees of a run: at most MaxFiles files, no path twice.
Trees ==
    LET NoFile == File("", "absent", "", Raises, Raises)
        Picks  == [1..MaxFiles -> Catalogue \cup {NoFile}]
    IN  {t \in {{q[i] : i \in 1..MaxFiles} \ {NoFile} : q \in Picks} :
            \A f, g \in t : f.path = g.path => f = g}

Overwrite(acc, S) == S

\* acc |= S
Accumulate(acc, S) == acc \cup S

drift_keep_ignored(a, b, ig) == sorted(a \ b)

\* sorted((a - b) - ignore)
drift(a, b, ig) == sorted((a \ b) \ ig)

status_without_tfvars(u, m, x) == IF u = <<>> /\ m = <<>> THEN 0 ELSE 1

\* the value main() returns
status(u, m, x) == IF u = <<>> /\ m = <<>> /\ x = <<>> THEN 0 ELSE 1

Init ==
    /\ hcl2_available \in BOOLEAN
    /\ tree \in Trees
    /\ ignorefile \in IgnoreFiles
    /\ pc = "import"
    /\ todo = {}
    /\ declared = {} /\ used = {} /\ tfvars_keys = {} /\ ignore = {}
    /\ unused = <<>> /\ missing = <<>> /\ tfvars_extra = <<>>
    /\ exit_code = -1
    /\ tf_parsed = {} /\ tfvars_parsed = {}

\* try: import hcl2 / except ImportError: sys.exit(2)
ImportFails ==
    /\ pc = "import" /\ ~hcl2_available
    /\ pc' = "exit" /\ exit_code' = 2
    /\ UNCHANGED <<hcl2_available, tree, ignorefile, todo, declared, used,
                   tfvars_keys, ignore, unused, missing, tfvars_extra,
                   tf_parsed, tfvars_parsed>>

\* main() up to the first glob
MainStart ==
    /\ pc = "import" /\ hcl2_available
    /\ pc' = "tf_loop"
    /\ todo' = {p \in Paths : GlobTf(p)}
    /\ UNCHANGED <<hcl2_available, tree, ignorefile, declared, used,
                   tfvars_keys, ignore, unused, missing, tfvars_extra,
                   exit_code, tf_parsed, tfvars_parsed>>

\* An exception nothing catches leaves main(): the interpreter prints the
\* traceback and the process ends with status 1.
Uncaught ==
    /\ pc' = "crashed" /\ exit_code' = 1 /\ todo' = {}

\* one iteration of "for path in glob.glob('**/*.tf')": should_skip says skip
TfSkip(p) ==
    /\ pc = "tf_loop" /\ p \in todo
    /\ should_skip(p)
    /\ todo' = todo \ {p}
    /\ UNCHANGED <<hcl2_available, tree, ignorefile, pc, declared, used,
                   tfvars_keys, ignore, unused, missing, tfvars_extra,
                   exit_code, tf_parsed, tfvars_parsed>>

\* one iteration of the .tf loop on a surviving path
TfParse(p) ==
    /\ pc = "tf_loop" /\ p \in todo
    /\ ~should_skip(p)
    /\ tf_parsed' = tf_parsed \cup {p}
    /\ LET d == parse_declared_vars_from_tf(FileAt(p))
           u == parse_used_vars_from_tf(FileAt(p))
       IN  IF d.raised
           THEN Uncaught /\ UNCHANGED <<declared, used>>
           ELSE IF u.raised
           THEN Uncaught /\ declared' = Accumulate(declared, d.val) /\ UNCHANGED used
           ELSE /\ declared' = Accumulate(declared, d.val)
                /\ used' = Accumulate(used, u.val)
                /\ todo' = todo \ {p}
                /\ UNCHANGED <<pc, exit_code>>
    /\ UNCHANGED <<hcl2_available, tree, ignorefile, tfvars_keys, ignore,
                   unused, missing, tfvars_extra, tfvars_parsed>>

\* the .tf loop ends; glob.glob('**/*.tfvars*')
TfDone ==
    /\ pc = "tf_loop" /\ todo = {}
    /\ pc' = "tfvars_loop"
    /\ todo' = {p \in Paths : GlobTfvars(p)}
    /\ UNCHANGED <<hcl2_available, tree, ignorefile, declared, used,
                   tfvars_keys, ignore, unused, missing, tfvars_extra,
                   exit_code, tf_parsed, tfvars_parsed>>

\* one iteration of either tfvars loop: should_skip says skip
TfvarsSkip(p) ==
    /\ pc \in {"tfvars_loop", "json_loop"} /\ p \in todo
    /\ should_skip(p)
    /\ todo' = todo \ {p}
    /\ UNCHANGED <<hcl2_available, tree, ignorefile, pc, declared, used,
                   tfvars_keys, ignore, unused, missing, tfvars_extra,
                   exit_code, tf_parsed, tfvars_parsed>>

\* one iteration of either tfvars loop on a surviving path
\* (parse_tfvars catches every exception)
TfvarsParse(p) ==
    /\ pc \in {"tfvars_loop", "json_loop"} /\ p \in todo
    /\ ~should_skip(p)
    /\ tfvars_parsed' = tfvars_parsed \cup {p}
    /\ tfvars_keys' = Accumulate(tfvars_keys, parse_tfvars(FileAt(p)).val)
    /\ todo' = todo \ {p}
    /\ UNCHANGED <<hcl2_available, tree, ignorefile, pc, declared, used,
                   ignore, unused, missing, tfvars_extra, exit_code, tf_parsed>>

\* the '**/*.tfvars*' loop ends; glob.glob('**/*.tfvars.json')
TfvarsDone ==
    /\ pc = "tfvars_loop" /\ todo = {}
    /\ pc' = "json_loop"
    /\ todo' = {p \in Paths : GlobTfvarsJson(p)}
    /\ UNCHANGED <<hcl2_available, tree, ignorefile, declared, used,
                   tfvars_keys, ignore, unused, missing, tfvars_extra,
                   exit_code, tf_parsed, tfvars_parsed>>

\* the '**/*.tfvars.json' loop ends
JsonDone ==
    /\ pc = "json_loop" /\ todo = {}
    /\ pc' = "load_ignore"
    /\ UNCHANGED <<hcl2_available, tree, ignorefile, todo, declared, used,
                   tfvars_keys, ignore, unused, missing, tfvars_extra,
                   exit_code, tf_parsed, tfvars_parsed>>

\* ignore = load_ignorelist(repo_root)
LoadIgnore ==
    /\ pc = "load_ignore"
    /\ LET r == load_ignorelist(ignorefile)
       IN  IF r.raised
           THEN Uncaught /\ UNCHANGED ignore
           ELSE ignore' = r.val /\ pc' = "compare" /\ UNCHANGED <<todo, exit_code>>
    /\ UNCHANGED <<hcl2_available, tree, ignorefile, declared, used,
                   tfvars_keys, unused, missing, tfvars_extra,
                   tf_parsed, tfvars_parsed>>

\* the three sorted differences
Compare ==
    /\ pc = "compare"
    /\ unused' = drift(declared, used, ignore)
    /\ missing' = drift(used, declared, ignore)
    /\ tfvars_extra' = drift(tfvars_keys, declared, ignore)
    /\ pc' = "report"
    /\ UNCHANGED <<hcl2_available, tree, ignorefile, todo, declared, used,
                   tfvars_keys, ignore, exit_code, tf_parsed, tfvars_parsed>>

\* the report and sys.exit(main())
Report ==
    /\ pc = "report"
    /\ exit_code' = status(unused, missing, tfvars_extra)
    /\ pc' = "exit"
    /\ UNCHANGED <<hcl2_available, tree, ignorefile, todo, declared, used,
                   tfvars_keys, ignore, unused, missing, tfvars_extra,
                   tf_parsed, tfvars_parsed>>

Next ==
    \/ ImportFails
    \/ MainStart
    \/ \E p \in todo : TfSkip(p)
    \/ \E p \in todo : TfParse(p)
    \/ TfDone
    \/ \E p \in todo : TfvarsSkip(p)
    \/ \E p \in todo : TfvarsParse(p)
    \/ TfvarsDone
    \/ JsonDone
    \/ LoadIgnore
    \/ Compare
    \/ Report

Spec == Init /\ [][Next]_vars

-----------------------------------------------------------------------------
(* Properties *)

\* The run got past the comparison (line 129).
Compared == pc = "report" \/ (pc = "exit" /\ hcl2_available)

\* The three loops are over.
Traversed == pc \in {"load_ignore", "compare", "report"} \/ (pc = "exit" /\ hcl2_available)

StrictlyAscending(q) == \A i \in 1..(Len(q) - 1) : StrLess(q[i], q[i + 1])

\* The extension test of the Path Filter, on the normalized path.
Recognized(p) == \E e \in IGNORE_FILE_EXTS : EndsWith(ReplaceBackslash(p), e)

\* Some directory of the normalized path is a denylisted segment
\* (.terraform, .git, vendor, third_party), wherever it stands in the path.
UnderDenylisted(p) ==
    \E s \in IGNORE_DIR_PATTERNS : Contains("/" \o ReplaceBackslash(p), s)

\* C1: once compared, unused, missing and tfvars_extra list exactly
\* (D - U) - I, (U - D) - I and (T - D) - I, in ascending order without
\* duplicates.
C1_DriftIsSetDifference ==
    Compared =>
        /\ Range(unused) = (declared \ used) \ ignore
        /\ Range(missing) = (used \ declared) \ ignore
        /\ Range(tfvars_extra) = (tfvars_keys \ declared) \ ignore
        /\ StrictlyAscending(unused)
        /\ StrictlyAscending(missing)
        /\ StrictlyAscending(tfvars_extra)

C1_Witness ==
    /\ pc = "report"
    /\ Len(unused) >= 2
    /\ ignore # {}

\* C2: the ignore set is what load_ignorelist returns for .tfdriftignore,
\* and once compared no category contains a name of it.
C2_IgnoredNeverReported ==
    Compared =>
        /\ ignore = load_ignorelist(ignorefile).val
        /\ Range(unused) \cap ignore = {}
        /\ Range(missing) \cap ignore = {}
        /\ Range(tfvars_extra) \cap ignore = {}

C2_Witness ==
    /\ pc = "report"
    /\ (declared \ used) \cap ignore # {}
    /\ (tfvars_keys \ declared) \cap ignore # {}

\* C3: with hcl2 importable, a run that completes exits 0 exactly when the
\* three categories are empty and 1 exactly when one of them is not.
C3_ExitCodeIsDrift ==
    (pc = "exit" /\ hcl2_available) =>
        /\ exit_code = 0 <=> (unused = <<>> /\ missing = <<>> /\ tfvars_extra = <<>>)
        /\ exit_code = 1 <=> (unused # <<>> \/ missing # <<>> \/ tfvars_extra # <<>>)

C3_Witness ==
    /\ pc = "exit" /\ exit_code = 1
    /\ unused = <<>> /\ missing = <<>> /\ tfvars_extra # <<>>
    /\ Cardinality(tfvars_keys) > Len(tfvars_extra)

\* C4: no file under a denylisted directory is handed to an extractor.
C4_DenylistedNeverParsed ==
    \A p \in tf_parsed \cup tfvars_parsed : ~UnderDenylisted(p)

\* C5: when .tfdriftignore can be loaded, a run never ends in an uncaught
\* exception: it exits 0 or 1 after every surviving path of every pattern
\* went through its extractors.
C5_FileErrorsIsolated ==
    (hcl2_available /\ ~load_ignorelist(ignorefile).raised /\ pc \in {"exit", "crashed"}) =>
        /\ pc = "exit" /\ exit_code \in {0, 1}
        /\ \A p \in Paths : (GlobTf(p) /\ ~should_skip(p)) => p \in tf_parsed
        /\ \A p \in Paths : (GlobTfvars(p) /\ ~should_skip(p)) => p \in tfvars_parsed

\* C6: no file with an unrecognized extension is handed to an extractor,
\* and the accumulators hold only names of files with a recognized one.
C6_UnrecognizedContributeNothing ==
    /\ \A p \in tf_parsed \cup tfvars_parsed : Recognized(p)
    /\ declared \subseteq
         UNION {parse_declared_vars_from_tf(f).val : f \in {g \in tree : Recognized(g.path)}}
    /\ used \subseteq
         UNION {parse_used_vars_from_tf(f).val : f \in {g \in tree : Recognized(g.path)}}
    /\ tfvars_keys \subseteq
         UNION {parse_tfvars(f).val : f \in {g \in tree : Recognized(g.path)}}

C6_Witness ==
    /\ pc = "json_loop"
    /\ \E f \in tree : /\ GlobTfvars(f.path)
                       /\ ~Recognized(f.path)
                       /\ parse_tfvars(f).val # {}

\* C7: for every file the declaration extractor was called on and whose
\* structured parse raises, the fallback does not raise and the names of
\* the header pattern are in declared.
C7_FallbackNeverRaises ==
    \A p \in tf_parsed :
        hcl_load(FileAt(p)).tag = "error" =>
            /\ ~parse_declared_vars_from_tf(FileAt(p)).raised
            /\ pc # "crashed"
            /\ DeclFindall(FileAt(p).text, 1) \subseteq declared

\* C8: no path is handed both to the declaration/reference extractors and
\* to the override extractor.
C8_RolesExclusive == tf_parsed \cap tfvars_parsed = {}

\* The override keys of the '**/*.tfvars*' pass alone.
BroadPassKeys ==
    UNION {parse_tfvars(f).val : f \in {g \in tree : GlobTfvars(g.path) /\ ~should_skip(g.path)}}

\* C9: the '**/*.tfvars.json' pattern matches only paths '**/*.tfvars*'
\* matches, and from the end of the '**/*.tfvars*' pass on tfvars_keys is
\* what that pass alone collected, each file counted once.
C9_JsonPassIdempotent ==
    /\ \A p \in Paths : GlobTfvarsJson(p) => GlobTfvars(p)
    /\ (pc = "json_loop" \/ Traversed) => tfvars_keys = BroadPassKeys

C9_Witness ==
    /\ pc = "load_ignore"
    /\ \E p \in tfvars_parsed : /\ GlobTfvarsJson(p)
                                /\ parse_tfvars(FileAt(p)).val # {}
    /\ Cardinality(tfvars_parsed) >= 2

\* C10: the accumulators start empty, every step leaves each a superset of
\* what it was, and once the loops are over neither they nor, once loaded,
\* the ignore set change.
C10_MonotonicAccumulation ==
    /\ [](pc = "import" => (declared = {} /\ used = {} /\ tfvars_keys = {}))
    /\ [][/\ declared \subseteq declared'
          /\ used \subseteq used'
          /\ tfvars_keys \subseteq tfvars_keys'
          /\ Traversed => (declared' = declared /\ used' = used /\ tfvars_keys' = tfvars_keys)
          /\ Compared => ignore' = ignore
          /\ pc = "compare" => ignore' = ignore]_vars

C10_Witness ==
    /\ pc = "report"
    /\ \E p, q \in tf_parsed :
          /\ parse_declared_vars_from_tf(FileAt(p)).val \ parse_declared_vars_from_tf(FileAt(q)).val # {}
          /\ parse_declared_vars_from_tf(FileAt(q)).val \ parse_declared_vars_from_tf(FileAt(p)).val # {}
    /\ declared # {} /\ ignore # {}

====
